---- MODULE Spec2Model ----
(***************************************************************************)
(* Projector-based embedding (src/embed_proc.py): the three occupied-MO    *)
(* partitioners and the embedding driver.                                  *)
(*                                                                         *)
(* Numbers.  Every matrix is a record [nr, nc, den, e]: integer entries e  *)
(* over one common denominator den, so that rotations by the 3-4-5         *)
(* orthogonal matrices are exact.  Indices are 0-based as in the source    *)
(* (At, Cols, Rows take 0-based indices; e itself is a tuple of rows).     *)
(***************************************************************************)
EXTENDS Integers, Sequences, FiniteSets, TLC

VARIABLES mf, pc, call, ret, loc

vars == <<mf, pc, call, ret, loc>>

-----------------------------------------------------------------------------
(* Bounds of the model. *)

\* occupied-orbital coefficient multipliers range over 1..MaxCoef
MaxCoef == 2

None == "None"

\* optional arguments: Python's None, or a value
NoneArg == [some |-> FALSE]

Some(x) == [some |-> TRUE, val |-> x]

-----------------------------------------------------------------------------
(* Exact matrix arithmetic. *)

RECURSIVE SumFn(_, _)
SumFn(f, n) == IF n = 0 THEN 0 ELSE f[n] + SumFn(f, n - 1)

Mat(nr, nc, den, F(_, _)) ==
  [nr |-> nr, nc |-> nc, den |-> den,
   e |-> [i \in 1..nr |-> [j \in 1..nc |-> F(i - 1, j - 1)]]]

At(M, i, j) == M.e[i + 1][j + 1]

Range(n) == [k \in 1..n |-> k - 1]

SeqSet(s) == {s[k] : k \in 1..Len(s)}

\* M[:, idx] for a list idx of column indices
Cols(M, idx) == Mat(M.nr, Len(idx), M.den, LAMBDA i, j : At(M, i, idx[j + 1]))

\* M[idx, :] for a list idx of row indices
Rows(M, idx) == Mat(Len(idx), M.nc, M.den, LAMBDA i, j : At(M, idx[i + 1], j))

Transpose(M) == Mat(M.nc, M.nr, M.den, LAMBDA i, j : At(M, j, i))

MatMul(A, B) ==
  Mat(A.nr, B.nc, A.den * B.den,
      LAMBDA i, j : SumFn([k \in 1..A.nc |-> A.e[i + 1][k] * B.e[k][j + 1]], A.nc))

MatAdd(A, B) ==
  Mat(A.nr, A.nc, A.den * B.den,
      LAMBDA i, j : At(A, i, j) * B.den + At(B, i, j) * A.den)

MatSub(A, B) ==
  Mat(A.nr, A.nc, A.den * B.den,
      LAMBDA i, j : At(A, i, j) * B.den - At(B, i, j) * A.den)

MatScale(k, A) == Mat(A.nr, A.nc, A.den, LAMBDA i, j : k * At(A, i, j))

MatHalf(A) == [A EXCEPT !.den = 2 * @]

RECURSIVE Gcd(_, _)
Gcd(a, b) == IF b = 0 THEN (IF a < 0 THEN -a ELSE a) ELSE Gcd(b, a % b)

RECURSIVE GcdOf(_, _)
GcdOf(f, n) == IF n = 0 THEN 0 ELSE Gcd(f[n], GcdOf(f, n - 1))

\* the same rational matrix over the least common denominator
Lowest(M) ==
  LET g == Gcd(M.den, GcdOf([i \in 1..M.nr |-> GcdOf(M.e[i], M.nc)], M.nr))
  IN  Mat(M.nr, M.nc, M.den \div g, LAMBDA i, j : At(M, i, j) \div g)

\* equality of the rational matrices two records stand for
MatEq(A, B) == Lowest(A) = Lowest(B)

Identity(n) == Mat(n, n, 1, LAMBDA i, j : IF i = j THEN 1 ELSE 0)

IsDiagonal(M) ==
  \A i \in 0..(M.nr - 1) : \A j \in 0..(M.nc - 1) : i # j => At(M, i, j) = 0

\* the integer square root, by bisection
RECURSIVE SqrtSearch(_, _, _)
SqrtSearch(x, lo, hi) ==
  IF lo >= hi THEN lo
  ELSE LET mid == (lo + hi + 1) \div 2
       IN  IF mid * mid <= x THEN SqrtSearch(x, mid, hi) ELSE SqrtSearch(x, lo, mid - 1)

ISqrt(x) == SqrtSearch(x, 0, x)

IsSquare(x) == x >= 0 /\ ISqrt(x) * ISqrt(x) = x

-----------------------------------------------------------------------------
(* Orthogonal matrices the external kernels (numpy.linalg.svd, pyscf lo.PM) *)
(* can return in this model: row permutations of the identity and of the    *)
(* rotation with cosine 3/5 and sine 4/5 in the plane of the first two axes.*)

Pyth == <<3, 4, 5>>

\* rotation by (3/5, 4/5) in the plane of the axes p < q
Givens(n, p, q) ==
  Mat(n, n, Pyth[3],
      LAMBDA i, j : IF i = p /\ j = p THEN Pyth[1]
                    ELSE IF i = p /\ j = q THEN Pyth[2]
                    ELSE IF i = q /\ j = p THEN -Pyth[2]
                    ELSE IF i = q /\ j = q THEN Pyth[1]
                    ELSE IF i = j THEN Pyth[3] ELSE 0)

GivensSet(n) == {Identity(n)} \cup (IF n >= 2 THEN {Givens(n, 0, 1)} ELSE {})

Perms(n) == {p \in [1..n -> 0..(n - 1)] : \A i, j \in 1..n : i # j => p[i] # p[j]}

OrthSetOf(n) == {Rows(G, p) : G \in GivensSet(n), p \in Perms(n)}

OrthSet == [n \in 0..4 |-> OrthSetOf(n)]

-----------------------------------------------------------------------------
(* The whole-system mean-field result handed to the partitioners.           *)

\* mol.offset_ao_by_atom(): one row (shell0, shell1, ao0, ao1) per atom
Molecule ==
  [natm |-> 3, nao |-> 4,
   offset |-> << <<0, 1, 0, 2>>, <<1, 2, 2, 3>>, <<2, 3, 3, 4>> >>,
   basis |-> [form |-> "contracted", aos |-> Range(4)],
   nelectron |-> 0, enuc |-> 3]

\* offset_ao_by_atom[atom, col], both 0-based
Offset(mol, atom, col) == mol.offset[atom + 1][col + 1]

\* list(range(a, b))
PyRange(a, b) == [k \in 1..(IF b > a THEN b - a ELSE 0) |-> a + k - 1]

\* active_atoms arguments: None, the list [], another empty collection (an
\* empty tuple, set or dict, which does not compare equal to []), non-empty
\* lists of atom indices
ActiveAtoms(kind, items) == [kind |-> kind, items |-> items]

ActiveAtomChoices ==
  {ActiveAtoms("None", <<>>), ActiveAtoms("list", <<>>), ActiveAtoms("tuple", <<>>),
   ActiveAtoms("list", <<0>>), ActiveAtoms("list", <<1>>),
   ActiveAtoms("list", <<1, 2>>), ActiveAtoms("list", <<0, 1, 2>>)}

\* Python's `active_atoms == []`
IsEmptyList(active_atoms) == active_atoms.kind = "list" /\ active_atoms.items = <<>>

\* mutant: any falsy active_atoms is taken for None
IsNoneOrEmpty(active_atoms) == active_atoms.kind = "None" \/ active_atoms.items = <<>>

\* Python's `active_atoms is None`
IsNone(active_atoms) == active_atoms.kind = "None"

\* occupations of a converged restricted mean field: n doubly occupied orbitals
LeadingOcc(nmo, n) == [k \in 1..nmo |-> IF k <= n THEN 2 ELSE 0]

\* orbital mixings of the inputs: none, or AOs 0 and 1 rotated into each other
MixSet(n) == {Identity(n), Givens(n, 0, 1)}

\* overlap matrices of the inputs: orthonormal AOs, or AOs 2 and 3 overlapping
\* (the square of the symmetric positive-definite  I (+) [[2, 1], [1, 2]])
OvlpSet ==
  {Identity(4),
   Mat(4, 4, 1, LAMBDA i, j : IF i = j THEN (IF i >= 2 THEN 5 ELSE 1)
                             ELSE IF i >= 2 /\ j >= 2 THEN 4 ELSE 0)}

\* mo_coeff: row i of the mixing scaled by k[i] / MaxCoef
MoCoeff(k, W) ==
  Mat(W.nr, W.nc, MaxCoef * W.den, LAMBDA i, j : k[i + 1] * At(W, i, j))

\* multipliers of the rows: free for the first n rows, 1 for the others
CoefSet(n) == {x \in [1..4 -> 1..MaxCoef] : \A i \in 1..4 : i > n => x[i] = 1}

MeanFieldsWith(n) ==
  {[mol |-> Molecule, mo_coeff |-> MoCoeff(k, W), mo_occ |-> LeadingOcc(4, n),
    ovlp |-> S] : W \in MixSet(4), S \in OvlpSet, k \in CoefSet(n)}

MeanFieldInputs == UNION {MeanFieldsWith(n) : n \in 1..4}

\* mo_coeff[:, mo_occ > 0]
OccupiedIdx(mo_occ) == SelectSeq(Range(Len(mo_occ)), LAMBDA i : mo_occ[i + 1] > 0)

OccupiedCoeffs(pyscf_mf) == Cols(pyscf_mf.mo_coeff, OccupiedIdx(pyscf_mf.mo_occ))

\* embed_utils.make_dm: (mo_coeff * mo_occ) @ mo_coeff.T
make_dm(mo_coeff, occ) ==
  Mat(mo_coeff.nr, mo_coeff.nr, mo_coeff.den * mo_coeff.den,
      LAMBDA i, j : SumFn([k \in 1..mo_coeff.nc |->
                             mo_coeff.e[i + 1][k] * occ[k] * mo_coeff.e[j + 1][k]],
                          mo_coeff.nc))

\* lo.PM(mol, c_occ).kernel(): the occupied orbitals rotated among themselves
LocalizationOutcomes(n) ==
  IF n >= 2 THEN {Givens(n, 0, 1), Rows(Identity(n), [k \in 1..n |-> n - k])}
  ELSE {Identity(n)}

Localized(localize, c_occ, U) == IF localize THEN MatMul(c_occ, U) ELSE c_occ

-----------------------------------------------------------------------------
(* mulliken_partition / occupancy_partition                                 *)

Thresholds == {<<2, 5>>, <<1, 1>>}

\* x > threshold for the rational x = num / den
Exceeds(num, den, threshold) == num * threshold[2] > threshold[1] * den

Returned(c_occ, active_mos, frozen_mos) ==
  [kind |-> "return", active_mos |-> active_mos, frozen_mos |-> frozen_mos,
   c_a |-> Cols(c_occ, active_mos), c_b |-> Cols(c_occ, frozen_mos)]

Raised(exc) == [kind |-> "raise", exc |-> exc]

\* np.einsum('ij,ij->', rdm_mo[:, offset:extent], overlap[:, offset:extent])
AtomCharge(rdm_mo, overlap, offset, extent) ==
  SumFn([i \in 1..rdm_mo.nr |->
           SumFn([j \in 1..(extent - offset) |->
                    rdm_mo.e[i][offset + j] * overlap.e[i][offset + j]],
                 extent - offset)],
        rdm_mo.nr)

MullikenActive(pyscf_mf, charge_threshold, active_atoms, c_occ, mo_i) ==
  LET rdm_mo == make_dm(Cols(c_occ, <<mo_i>>), <<pyscf_mf.mo_occ[mo_i + 1]>>)
  IN  \E a \in 1..Len(active_atoms.items) :
        LET atom == active_atoms.items[a]
            offset == Offset(pyscf_mf.mol, atom, 2)
            extent == Offset(pyscf_mf.mol, atom, 3)
        IN  Exceeds(AtomCharge(rdm_mo, pyscf_mf.ovlp, offset, extent),
                    rdm_mo.den * pyscf_mf.ovlp.den, charge_threshold)

\* mutant: every column is listed as frozen
MullikenFrozenAll(n, active_mos) == Range(n)

MullikenFrozen(n, active_mos) ==
  SelectSeq(Range(n), LAMBDA i : i \notin SeqSet(active_mos))

\* mulliken_partition(charge_threshold, localize)(pyscf_mf, active_atoms, c_occ);
\* U is what the localization kernel returned
MullikenInternal(charge_threshold, localize, U, pyscf_mf, active_atoms, c_occ_arg) ==
  LET c_occ0 == IF c_occ_arg.some THEN c_occ_arg.val ELSE OccupiedCoeffs(pyscf_mf)
      c_occ == Localized(localize, c_occ0, U)
      active_mos == SelectSeq(Range(c_occ.nc),
                      LAMBDA mo_i : MullikenActive(pyscf_mf, charge_threshold,
                                                   active_atoms, c_occ, mo_i))
  IN  IF IsEmptyList(active_atoms) THEN Returned(c_occ, <<>>, Range(c_occ.nc))
      ELSE IF IsNone(active_atoms) THEN Returned(c_occ, Range(c_occ.nc), <<>>)
      ELSE Returned(c_occ, active_mos, MullikenFrozen(c_occ.nc, active_mos))

\* the AOs on the active atoms, in the order of active_atoms
ActiveAOs(mol, active_atoms) ==
  LET RECURSIVE Go(_)
      Go(a) == IF a > Len(active_atoms.items) THEN <<>>
               ELSE PyRange(Offset(mol, active_atoms.items[a], 2),
                            Offset(mol, active_atoms.items[a], 3)) \o Go(a + 1)
  IN  Go(1)

\* np.trace(dm_mo[np.ix_(active_aos, active_aos)])
MeshTrace(dm_mo, active_aos) ==
  SumFn([a \in 1..Len(active_aos) |-> At(dm_mo, active_aos[a], active_aos[a])],
        Len(active_aos))

OccupancyActive(pyscf_mf, occupancy_threshold, active_aos, c_occ, mo_i) ==
  LET rdm_mo == make_dm(Cols(c_occ, <<mo_i>>), <<1>>)
      dm_mo == MatMul(rdm_mo, pyscf_mf.ovlp)
  IN  Exceeds(MeshTrace(dm_mo, active_aos), dm_mo.den, occupancy_threshold)

\* occupancy_partition(occupancy_threshold, localize)(pyscf_mf, active_atoms, c_occ)
OccupancyInternal(occupancy_threshold, localize, U, pyscf_mf, active_atoms, c_occ_arg) ==
  LET c_occ0 == IF c_occ_arg.some THEN c_occ_arg.val ELSE OccupiedCoeffs(pyscf_mf)
      c_occ == Localized(localize, c_occ0, U)
      active_aos == ActiveAOs(pyscf_mf.mol, active_atoms)
      IsAct(mo_i) == OccupancyActive(pyscf_mf, occupancy_threshold, active_aos, c_occ, mo_i)
      active_mos == SelectSeq(Range(c_occ.nc), IsAct)
      frozen_mos == SelectSeq(Range(c_occ.nc), LAMBDA mo_i : ~IsAct(mo_i))
  IN  IF IsEmptyList(active_atoms) THEN Returned(c_occ, <<>>, Range(c_occ.nc))
      ELSE IF IsNone(active_atoms) THEN Returned(c_occ, Range(c_occ.nc), <<>>)
      ELSE Returned(c_occ, active_mos, frozen_mos)

-----------------------------------------------------------------------------
(* spade_partition                                                          *)

\* symmetric, strictly diagonally dominant matrices with a positive diagonal
\* (hence positive definite) among which the square root is looked for
SqrtCandidates ==
  LET Pairs == {x \in (0..3) \X (0..3) : x[1] < x[2]}
  IN  {Mat(4, 4, 1, LAMBDA i, j : IF i = j THEN 2 - d[i + 1]
                                  ELSE IF <<i, j>> \in on \/ <<j, i>> \in on THEN 1 ELSE 0) :
         d \in [1..4 -> 0..1],
         on \in {x \in SUBSET Pairs : Cardinality(x) <= 1}}

\* scipy.linalg.fractional_matrix_power(overlap, 0.5): the positive-definite
\* square root of the overlap matrix
FractionalSqrt ==
  [S \in OvlpSet |->
     CHOOSE R \in SqrtCandidates :
       /\ MatEq(MatMul(R, R), S)
       /\ \A i \in 0..3 : At(R, i, i) > SumFn([j \in 1..4 |-> IF j - 1 = i THEN 0 ELSE R.e[i + 1][j]], 4)]

\* (overlap_sqrt @ c_occ)[active_aos, :]
OrthogonalAOBlock(pyscf_mf, active_aos, c_occ) ==
  Rows(MatMul(FractionalSqrt[pyscf_mf.ovlp], c_occ), active_aos)

\* G @ r for a row vector r
GramTimes(G, r) == [j \in 1..G.nr |-> SumFn([k \in 1..G.nc |-> G.e[j][k] * r[k]], G.nc)]

IsEigenRow(G, r) ==
  LET w == GramTimes(G, r)
  IN  \A j, k \in 1..G.nr : w[j] * r[k] = w[k] * r[j]

\* r G r^T
Quad(G, r) == LET w == GramTimes(G, r) IN SumFn([k \in 1..G.nr |-> r[k] * w[k]], G.nr)

Min(a, b) == IF a < b THEN a ELSE b

\* np.linalg.svd(a, full_matrices=True): the singular values (numerators over
\* a.den), descending, and the orthogonal matrix of right singular vectors whose
\* rows diagonalise a^T a.  Of an empty matrix numpy either refuses
\* (LinAlgError) or returns no singular value, by its version.
SvdOutcomes(a) ==
  LET G == MatMul(Transpose(a), a)
      n == a.nc
      EigenRows == {r \in UNION {SeqSet(V.e) : V \in OrthSet[n]} : IsEigenRow(G, r)}
      Fits(V) ==
        /\ \A i \in 1..n : V.e[i] \in EigenRows
        /\ \A i \in 1..(n - 1) : Quad(G, V.e[i]) >= Quad(G, V.e[i + 1])
        /\ \A i \in 1..n : IsSquare(Quad(G, V.e[i]))
  IN  {[kind |-> "return",
        s_vals |-> [i \in 1..Min(a.nr, n) |-> ISqrt(Quad(G, V.e[i])) \div V.den],
        v_vecs |-> V] : V \in {W \in OrthSet[n] : Fits(W)}}
      \cup (IF a.nr = 0 \/ a.nc = 0 THEN {Raised("LinAlgError")} ELSE {})

\* mutant: the singular values padded to the number of right singular vectors
PaddedToFull(s_vals, v_vecs) ==
  s_vals \o [i \in 1..(v_vecs.nr - Len(s_vals)) |-> 0]

\* s_vals as the gaps are computed from it
PaddedSVals(s_vals, v_vecs) ==
  IF Len(s_vals) # v_vecs.nr THEN Append(s_vals, 0) ELSE s_vals

\* [-(s_vals[i + 1] - s_vals[i]) for i in range(len(s_vals) - 1)]
Deltas(s_vals) == [i \in 1..(Len(s_vals) - 1) |-> -(s_vals[i + 1] - s_vals[i])]

\* mutant: index 0 when there is no gap to choose from
ArgPartitionDefault(deltas) ==
  IF deltas = <<>> THEN {0}
  ELSE {i - 1 : i \in {j \in 1..Len(deltas) : \A k \in 1..Len(deltas) : deltas[j] >= deltas[k]}}

\* mutant: the index of a smallest element
ArgPartitionFirst(deltas) ==
  {i - 1 : i \in {j \in 1..Len(deltas) : \A k \in 1..Len(deltas) : deltas[j] <= deltas[k]}}

\* np.argpartition(deltas, -1)[-1]: the 0-based index of a largest element
\* (which one among equal largest elements is up to numpy's selection);
\* no index when deltas is empty (numpy raises ValueError)
ArgPartitionLast(deltas) ==
  {i - 1 : i \in {j \in 1..Len(deltas) : \A k \in 1..Len(deltas) : deltas[j] >= deltas[k]}}

\* the values n_act_mos can take
NActMos(s_vals, v_vecs) ==
  IF Len(s_vals) = 1 THEN {1}
  ELSE {i + 1 : i \in ArgPartitionLast(Deltas(PaddedSVals(s_vals, v_vecs)))}

\* mutant: the frozen block starts one column late
SpadeSplitSkipsColumn(c_occ, svd, n_act_mos) ==
  LET vT == Transpose(svd.v_vecs)
      padded == IF Len(svd.s_vals) = 1 THEN svd.s_vals
                ELSE PaddedSVals(svd.s_vals, svd.v_vecs)
  IN  [kind |-> "return",
       s_vals |-> svd.s_vals,
       v_vecs |-> svd.v_vecs,
       padded |-> padded,
       deltas |-> IF Len(svd.s_vals) = 1 THEN <<>> ELSE Deltas(padded),
       n_act_mos |-> n_act_mos,
       c_a |-> MatMul(c_occ, Cols(vT, PyRange(0, Min(n_act_mos, vT.nc)))),
       c_b |-> MatMul(c_occ, Cols(vT, PyRange(Min(n_act_mos + 1, vT.nc), vT.nc)))]

\* spade_partition(pyscf_mf, active_atoms, c_occ) past the decomposition svd,
\* with n_act_mos the index chosen
SpadeSplit(c_occ, svd, n_act_mos) ==
  LET vT == Transpose(svd.v_vecs)
      padded == IF Len(svd.s_vals) = 1 THEN svd.s_vals
                ELSE PaddedSVals(svd.s_vals, svd.v_vecs)
  IN  [kind |-> "return",
       s_vals |-> svd.s_vals,
       v_vecs |-> svd.v_vecs,
       padded |-> padded,
       deltas |-> IF Len(svd.s_vals) = 1 THEN <<>> ELSE Deltas(padded),
       n_act_mos |-> n_act_mos,
       c_a |-> MatMul(c_occ, Cols(vT, PyRange(0, Min(n_act_mos, vT.nc)))),
       c_b |-> MatMul(c_occ, Cols(vT, PyRange(Min(n_act_mos, vT.nc), vT.nc)))]

SpadeCOcc(pyscf_mf, c_occ_arg) ==
  IF c_occ_arg.some THEN c_occ_arg.val ELSE OccupiedCoeffs(pyscf_mf)

\* everything spade_partition can do on the arguments: the results it can
\* return and the exceptions it can raise
SpadePartition(pyscf_mf, active_atoms, c_occ_arg) ==
  LET c_occ == SpadeCOcc(pyscf_mf, c_occ_arg)
      c_orthogonal_ao ==
        OrthogonalAOBlock(pyscf_mf, ActiveAOs(pyscf_mf.mol, active_atoms), c_occ)
      OfSvd(svd) ==
        IF svd.kind = "raise" THEN {svd}
        ELSE IF NActMos(svd.s_vals, svd.v_vecs) = {} THEN {Raised("ValueError")}
        ELSE {SpadeSplit(c_occ, svd, k) : k \in NActMos(svd.s_vals, svd.v_vecs)}
  IN  IF IsNone(active_atoms) THEN {Raised("TypeError")}
      ELSE UNION {OfSvd(svd) : svd \in SvdOutcomes(c_orthogonal_ao)}

-----------------------------------------------------------------------------
(* The partitioners applied to the inputs.                                  *)

Init ==
  /\ mf \in MeanFieldInputs
  /\ pc = "idle"
  /\ call = None
  /\ ret = None
  /\ loc = None

MullikenCall ==
  /\ pc = "idle"
  /\ \E thr \in Thresholds, localize \in BOOLEAN, aa \in ActiveAtomChoices :
     \E U \in (IF localize THEN LocalizationOutcomes(Len(OccupiedIdx(mf.mo_occ)))
               ELSE {None}) :
       /\ call' = [fn |-> "mulliken", threshold |-> thr, localize |-> localize,
                   active_atoms |-> aa, U |-> U]
       /\ ret' = MullikenInternal(thr, localize, U, mf, aa, NoneArg)
  /\ pc' = "done"
  /\ UNCHANGED <<mf, loc>>

OccupancyCall ==
  /\ pc = "idle"
  /\ \E thr \in Thresholds, localize \in BOOLEAN, aa \in ActiveAtomChoices :
     \E U \in (IF localize THEN LocalizationOutcomes(Len(OccupiedIdx(mf.mo_occ)))
               ELSE {None}) :
       /\ call' = [fn |-> "occupancy", threshold |-> thr, localize |-> localize,
                   active_atoms |-> aa, U |-> U]
       /\ ret' = OccupancyInternal(thr, localize, U, mf, aa, NoneArg)
  /\ pc' = "done"
  /\ UNCHANGED <<mf, loc>>

\* enabled on the inputs whose decomposition is exact in the model's numbers
SpadeCall ==
  /\ pc = "idle"
  /\ \E aa \in ActiveAtomChoices :
     \E r \in SpadePartition(mf, aa, NoneArg) :
       /\ call' = [fn |-> "spade", active_atoms |-> aa]
       /\ ret' = r
  /\ pc' = "done"
  /\ UNCHANGED <<mf, loc>>

Next == MullikenCall \/ OccupancyCall \/ SpadeCall

Spec == Init /\ [][Next]_vars

-----------------------------------------------------------------------------
(* embedding_procedure: numbers, strings and the external solvers.          *)

\* energies returned by the external solvers are drawn from 1..MaxEnergy
MaxEnergy == 2

\* rationals <<numerator, denominator>>, kept in lowest terms
QOf(n) == <<n, 1>>

QLowest(a) == LET g == Gcd(a[1], a[2]) IN <<a[1] \div g, a[2] \div g>>

QAdd(a, b) ==
  LET g == Gcd(a[2], b[2])
  IN  QLowest(<<a[1] * (b[2] \div g) + b[1] * (a[2] \div g), (a[2] \div g) * b[2]>>)

QSub(a, b) == QAdd(a, <<-b[1], b[2]>>)

QHalf(a) == QLowest(<<a[1], 2 * a[2]>>)

\* equality of two rationals with positive denominators
QEq(a, b) == QLowest(a) = QLowest(b)


\* method names are tuples of characters; str.lower() acts letter by letter
LowerOf ==
  [c \in {"R", "H", "F", "M", "P", "C", "S", "D", "T", "B", "L", "Y", "E"} |->
     CASE c = "R" -> "r" [] c = "H" -> "h" [] c = "F" -> "f" [] c = "M" -> "m"
       [] c = "P" -> "p" [] c = "C" -> "c" [] c = "S" -> "s" [] c = "D" -> "d"
       [] c = "T" -> "t" [] c = "B" -> "b" [] c = "L" -> "l" [] c = "Y" -> "y"
       [] c = "E" -> "e"]

\* mutant: the name is compared as given
LowerNoop(str) == str

\* embed_meth.lower()
Lower(str) == [k \in 1..Len(str) |-> IF str[k] \in DOMAIN LowerOf THEN LowerOf[str[k]] ELSE str[k]]

RHF == <<"r", "h", "f">>
MP2 == <<"m", "p", "2">>
CCSD == <<"c", "c", "s", "d">>
CCSD_T == <<"c", "c", "s", "d", "(", "t", ")">>

EmbedMethods ==
  {RHF, <<"R", "H", "F">>, MP2, <<"M", "p", "2">>, CCSD, <<"C", "C", "S", "D">>,
   CCSD_T, <<"C", "C", "S", "D", "(", "T", ")">>, <<"p", "b", "e">>, <<"P", "B", "E">>}

\* Python's truth value of trunc_lambda (None or a rational)
Truthy(x) == x.some /\ x.val[1] # 0

\* sum_ij A_ij B_ji
TraceProd(A, B) ==
  QLowest(<<SumFn([i \in 1..A.nr |-> SumFn([j \in 1..A.nc |-> A.e[i][j] * B.e[j][i]], A.nc)], A.nr),
            A.den * B.den>>)

\* the effective-potential operator of the external solver, a linear map of
\* the density (here S dm S)
Veff(ovlp, dm) == Lowest(MatMul(MatMul(ovlp, dm), ovlp))

\* pyscf energy_elec(dm, vhf, h1e)[0]: tr(h1e dm) + tr(vhf dm) / 2
EnergyElec(dm, vhf, h1e) == QAdd(TraceProd(h1e, dm), QHalf(TraceProd(vhf, dm)))

\* sum(init_mf.mo_occ[:k])
SumLeading(mo_occ, k) == SumFn(mo_occ, Min(k, Len(mo_occ)))

\* init_mf.mo_occ[:k]
Leading(mo_occ, k) == SubSeq(mo_occ, 1, Min(k, Len(mo_occ)))

\* M[np.ix_(idx, idx)]
Mesh(M, idx) == Rows(Cols(M, idx), idx)

\* the projector on AO k under the overlap metric, e_k e_k^T / S_kk
AOProjector(ovlp, k) ==
  Mat(ovlp.nr, ovlp.nc, At(ovlp, k, k), LAMBDA i, j : IF i = k /\ j = k THEN 1 ELSE 0)

\* embed_utils.purify(dm, ovlp): a density idempotent under the overlap metric
PurifyOutcomes(dm, ovlp) ==
  {X \in {dm, AOProjector(ovlp, 0), AOProjector(ovlp, 1)} :
     MatEq(MatMul(MatMul(X, ovlp), X), X)}

\* mol.build(basis=basis)
MolBuild(mol, basis) == [mol EXCEPT !.basis = basis, !.nao = Len(basis.aos)]

\* embed_utils.flatten_basis(mol): the basis in its flattened form
FlattenBasis(mol) == [form |-> "flattened", aos |-> mol.basis.aos]

\* embed_utils.truncate_basis(mol, include): the basis cut down to the AOs included
TruncateBasis(mol, active_aos) == [form |-> "flattened", aos |-> active_aos]

\* embed_utils.screen_aos: the AOs kept, all of them or those of the first two atoms
ScreenOutcomes(mol) == {mol.basis.aos, PyRange(0, 3)}

-----------------------------------------------------------------------------
(* embedding_procedure, in the steps of its body.                           *)

\* the partitioner handed in as distribute_mos; spade_partition has no threshold
\* and its entry is not read
Partitioner(fn, threshold, localize) ==
  [fn |-> fn, threshold |-> threshold, localize |-> localize]

PartitionerChoices ==
  {Partitioner("mulliken", <<2, 5>>, TRUE), Partitioner("occupancy", <<2, 5>>, FALSE),
   Partitioner("spade", <<0, 1>>, FALSE)}

\* distribute_mos(init_mf, active_atoms=active_atoms, c_occ=c_occ): what it can return or raise
Distribute(distribute_mos, init_mf, active_atoms, c_occ) ==
  LET Us == IF distribute_mos.localize THEN LocalizationOutcomes(c_occ.nc) ELSE {None}
  IN  IF distribute_mos.fn = "spade" THEN SpadePartition(init_mf, active_atoms, Some(c_occ))
      ELSE IF distribute_mos.fn = "mulliken"
        THEN {MullikenInternal(distribute_mos.threshold, distribute_mos.localize, U,
                               init_mf, active_atoms, Some(c_occ)) : U \in Us}
      ELSE {OccupancyInternal(distribute_mos.threshold, distribute_mos.localize, U,
                              init_mf, active_atoms, Some(c_occ)) : U \in Us}

\* the occupations that go with the active orbitals c_occ_a
ActiveOccupations(mo_occ, c_occ_a) == Leading(mo_occ, c_occ_a.nc)

\* mol.nelectron = int(sum(init_mf.mo_occ[:c_occ_a.shape[1]]))
ActiveElectrons(mo_occ, c_occ_a) == SumLeading(mo_occ, c_occ_a.nc)

\* hcore_a_in_b of lines 165-169
EmbeddingHamiltonian(f_ab, v_a, ovlp, dens_b, mu_val) ==
  IF ~mu_val.some
  THEN Lowest(MatSub(MatSub(f_ab, v_a),
                     Lowest(MatHalf(MatAdd(MatMul(MatMul(f_ab, dens_b), ovlp),
                                           MatMul(MatMul(ovlp, dens_b), f_ab))))))
  ELSE Lowest(MatAdd(MatSub(f_ab, v_a),
                     Lowest(MatScale(mu_val.val, MatMul(MatMul(ovlp, dens_b), ovlp)))))

\* lines 148-175, with part what distribute_mos returned
Prepared(init_mf, args, part) ==
  LET mol == init_mf.mol
      ovlp == init_mf.ovlp
      c_occ == OccupiedCoeffs(init_mf)
      c_occ_a == part.c_a
      dens_ab == Lowest(make_dm(c_occ, [k \in 1..c_occ.nc |-> init_mf.mo_occ[OccupiedIdx(init_mf.mo_occ)[k] + 1]]))
      dens_a == Lowest(make_dm(Lowest(c_occ_a), ActiveOccupations(init_mf.mo_occ, c_occ_a)))
      dens_b == Lowest(MatSub(dens_ab, dens_a))
      f_ab == init_mf.fock
      v_a == Veff(ovlp, dens_a)
      hcore_a_in_b == EmbeddingHamiltonian(f_ab, v_a, ovlp, dens_b, args.mu_val)
  IN  [mol |-> [mol EXCEPT !.nelectron = ActiveElectrons(init_mf.mo_occ, c_occ_a)],
       part |-> part,
       dens_a |-> dens_a,
       v_a |-> v_a,
       hcore_a_in_b |-> hcore_a_in_b,
       energy_a |-> EnergyElec(dens_a, v_a, hcore_a_in_b),
       energy_a_whole |-> EnergyElec(dens_a, v_a, hcore_a_in_b),
       energy_a_reduced |-> QOf(0),
       screened |-> FALSE,
       reduced |-> FALSE,
       scf_ran |-> FALSE,
       mf_embed |-> None,
       tot_energy_a_in_b |-> QOf(0),
       embed_corr |-> [e_corr |-> QOf(0), emp2 |-> QOf(0), e_t |-> QOf(0)],
       results |-> <<>>]

\* the solver object made for a molecule: scf.RHF(mol) or dft.RKS(mol) with
\* its xc, wrapped by df.density_fit with the auxiliary basis of init_mf when
\* init_mf has one, and with get_hcore replaced
Solver(kind, xc, mol, init_mf, hcore) ==
  [kind |-> kind, xc |-> xc, mol |-> mol, with_df |-> init_mf.with_df, get_hcore |-> hcore]

\* lines 189-214: the basis cut down to active_aos, the reduced solve seeded
\* with the purified density pure and converged to the density converged
Reduced(init_mf, l, mol, active_aos, pure, converged) ==
  LET hcore_a_in_b == Mesh(l.hcore_a_in_b, active_aos)
      tinit_mf == Solver(IF init_mf.xc.some THEN "RKS" ELSE "RHF", init_mf.xc,
                         MolBuild(mol, TruncateBasis(mol, active_aos)), init_mf, hcore_a_in_b)
      dens_a == converged
      v_a == Veff(Mesh(init_mf.ovlp, active_aos), dens_a)
      energy_a == EnergyElec(dens_a, v_a, hcore_a_in_b)
  IN  [l EXCEPT !.mol = tinit_mf.mol, !.hcore_a_in_b = hcore_a_in_b,
                !.dens_a = dens_a, !.v_a = v_a, !.energy_a = energy_a,
                !.energy_a_reduced = energy_a, !.screened = TRUE, !.reduced = TRUE]

\* pure_d_a = 2 * purify(dens['a'][mesh] / 2, ovlp[mesh])
PureDensities(init_mf, l, active_aos) ==
  {Lowest(MatScale(2, X)) : X \in PurifyOutcomes(Lowest(MatHalf(Mesh(l.dens_a, active_aos))),
                                         Mesh(init_mf.ovlp, active_aos))}

\* tinit_mf.kernel(pure_d_a); tinit_mf.make_rdm1(): the density the reduced
\* solve converges to, the seed itself or the doubly occupied first AO
ConvergedDensities(seed, ovlp) == {seed, Lowest(MatScale(2, AOProjector(ovlp, 0)))}

\* mutant: the nuclear repulsion is left in
EnergyAInBWithNuc(tot_energy_a_in_b, energy_nuc) == tot_energy_a_in_b

\* energy_a_in_b = tot_energy_a_in_b - mf_embed.energy_nuc()
EnergyAInB(tot_energy_a_in_b, energy_nuc) == QSub(tot_energy_a_in_b, energy_nuc)

\* init_mf.e_tot - energy_a + energy_a_in_b
Recombined(e_tot, energy_a, energy_a_in_b) == QAdd(QSub(e_tot, energy_a), energy_a_in_b)

WaveFunctionMethods == {RHF, MP2, CCSD, CCSD_T}

\* lines 217-234, with tot what mf_embed.kernel(dens['a']) returned
Solved(init_mf, args, l, tot) ==
  LET mf_embed ==
        IF Lower(args.embed_meth.val) \in WaveFunctionMethods
        THEN Solver("RHF", NoneArg, l.mol, init_mf, l.hcore_a_in_b)
        ELSE Solver("RKS", args.embed_meth, l.mol, init_mf, l.hcore_a_in_b)
      energy_a_in_b == EnergyAInB(tot, QOf(mf_embed.mol.enuc))
  IN  [l EXCEPT !.mf_embed = mf_embed, !.tot_energy_a_in_b = tot, !.scf_ran = TRUE,
                !.results = <<Recombined(init_mf.e_tot, l.energy_a, energy_a_in_b)>>]

Energies == {QOf(e) : e \in 1..MaxEnergy}

\* lines 237-248: the results tuple with the correlation terms of the method;
\* e_corr, emp2 and e_t are what the MP2 / CCSD kernels and ccsd_t() returned
Correlated(args, results, e_corr, emp2, e_t) ==
  IF Lower(args.embed_meth.val) = MP2 THEN results \o <<e_corr>>
  ELSE IF Lower(args.embed_meth.val) \in {CCSD, CCSD_T}
    THEN (results \o <<emp2>>) \o <<QSub(e_corr, emp2)>>
         \o (IF Lower(args.embed_meth.val) = CCSD_T THEN <<e_t>> ELSE <<>>)
  ELSE results

\* the kernels run for a method draw their energies; the others are not run
KernelDraws(args) ==
  LET m == Lower(args.embed_meth.val)
      Unused == {QOf(0)}
  IN  [e_corr |-> IF m \in {MP2, CCSD, CCSD_T} THEN Energies ELSE Unused,
       emp2 |-> IF m \in {CCSD, CCSD_T} THEN Energies ELSE Unused,
       e_t |-> IF m = CCSD_T THEN Energies ELSE Unused]

\* the whole-system results embedding_procedure is run on
EmbedMeanFields ==
  {[mol |-> Molecule, mo_coeff |-> MoCoeff(<<2, 1, 2, 1>>, Identity(4)), mo_occ |-> occ,
    ovlp |-> S, fock |-> Mat(4, 4, 1, LAMBDA i, j : IF i = j THEN i + 1 ELSE 1),
    e_tot |-> QOf(7), xc |-> kind[1], with_df |-> kind[2]] :
     occ \in {<<2, 2, 0, 0>>, <<2, 2, 2, 0>>, <<2, 1, 0, 0>>, <<0, 2, 2, 0>>},
     S \in OvlpSet \ {Identity(4)},
     kind \in {<<NoneArg, NoneArg>>, <<Some("pbe"), Some("weigend")>>}}

EmbedArgs ==
  [active_atoms : {ActiveAtoms("None", <<>>), ActiveAtoms("list", <<1>>),
                   ActiveAtoms("list", <<0, 1, 2>>)},
   embed_meth : {NoneArg} \cup {Some(m) : m \in EmbedMethods},
   mu_val : {NoneArg, Some(2)},
   trunc_lambda : {NoneArg, Some(<<0, 1>>), Some(<<1, 10>>)},
   distribute_mos : PartitionerChoices]

EmbedInit ==
  /\ mf \in EmbedMeanFields
  /\ call \in EmbedArgs
  /\ pc = "start"
  /\ ret = None
  /\ loc = None

\* lines 148-175
EmbedPrepare ==
  /\ pc = "start"
  /\ \E part \in Distribute(call.distribute_mos, mf, call.active_atoms, OccupiedCoeffs(mf)) :
       IF part.kind = "raise"
       THEN pc' = "raised" /\ ret' = part /\ loc' = loc
       ELSE pc' = "prepared" /\ ret' = ret /\ loc' = Prepared(mf, call, part)
  /\ UNCHANGED <<mf, call>>

\* line 177, trunc_lambda falsy
EmbedNoTruncation ==
  /\ pc = "prepared"
  /\ ~Truthy(call.trunc_lambda)
  /\ pc' = "truncated"
  /\ UNCHANGED <<mf, call, ret, loc>>

\* lines 177-214, trunc_lambda truthy
EmbedTruncate ==
  /\ pc = "prepared"
  /\ Truthy(call.trunc_lambda)
  /\ LET mol == MolBuild(loc.mol, FlattenBasis(loc.mol))
     IN  \E active_aos \in ScreenOutcomes(mol) :
           IF Len(active_aos) # mol.nao
           THEN \E pure \in PureDensities(mf, loc, active_aos) :
                \E converged \in ConvergedDensities(pure, Mesh(mf.ovlp, active_aos)) :
                  loc' = Reduced(mf, loc, mol, active_aos, pure, converged)
           ELSE loc' = [loc EXCEPT !.mol = mol, !.screened = TRUE]
  /\ pc' = "truncated"
  /\ UNCHANGED <<mf, call, ret>>

\* lines 216-234; None has no lower() and line 217 raises for the default
\* embed_meth
EmbedSolve ==
  /\ pc = "truncated"
  /\ IF call.embed_meth.some
     THEN /\ \E tot \in Energies : loc' = Solved(mf, call, loc, tot)
          /\ pc' = "solved"
          /\ ret' = ret
     ELSE /\ pc' = "raised"
          /\ ret' = Raised("AttributeError")
          /\ loc' = loc
  /\ UNCHANGED <<mf, call>>

\* lines 236-250
EmbedCorrelate ==
  /\ pc = "solved"
  /\ LET draws == KernelDraws(call)
     IN  \E e_corr \in draws.e_corr, emp2 \in draws.emp2, e_t \in draws.e_t :
           /\ loc' = [loc EXCEPT !.embed_corr = [e_corr |-> e_corr, emp2 |-> emp2, e_t |-> e_t],
                                 !.results = Correlated(call, loc.results, e_corr, emp2, e_t)]
           /\ ret' = Correlated(call, loc.results, e_corr, emp2, e_t)
  /\ pc' = "returned"
  /\ UNCHANGED <<mf, call>>

EmbedNext ==
  EmbedPrepare \/ EmbedNoTruncation \/ EmbedTruncate \/ EmbedSolve \/ EmbedCorrelate

SpecEmbed == EmbedInit /\ [][EmbedNext]_vars

-----------------------------------------------------------------------------
(* Properties of the partitioners.                                          *)

NOcc == OccupiedCoeffs(mf).nc

Done(fns) == pc = "done" /\ call.fn \in fns

ReturnedFrom(fns) == Done(fns) /\ ret.kind = "return"

NoRepeat(s) == \A i, j \in 1..Len(s) : i # j => s[i] # s[j]

\* C1: the active and frozen outputs cover the occupied columns exactly once:
\* for the threshold partitioners the two index lists are disjoint, without
\* repetition, and their union is {0..n-1}; for spade_partition the numbers
\* of active and of frozen columns add up to n.
C1_ColumnCompleteness ==
  /\ ReturnedFrom({"mulliken", "occupancy"}) =>
       /\ SeqSet(ret.active_mos) \cap SeqSet(ret.frozen_mos) = {}
       /\ SeqSet(ret.active_mos) \cup SeqSet(ret.frozen_mos) = 0..(NOcc - 1)
       /\ NoRepeat(ret.active_mos) /\ NoRepeat(ret.frozen_mos)
       /\ ret.c_a.nc = Len(ret.active_mos) /\ ret.c_b.nc = Len(ret.frozen_mos)
  /\ ReturnedFrom({"spade"}) => ret.c_a.nc + ret.c_b.nc = NOcc

C1_Witness ==
  \/ /\ ReturnedFrom({"mulliken"})
     /\ call.active_atoms.items = <<1>>
     /\ Len(ret.active_mos) = 1 /\ Len(ret.frozen_mos) = 2
  \/ /\ ReturnedFrom({"spade"})
     /\ ret.c_a.nc = 2 /\ ret.c_b.nc = 2 /\ ret.v_vecs.den = Pyth[3]

\* the density of a coefficient set whose columns all carry occupation 2
Density(c) == make_dm(c, [k \in 1..c.nc |-> 2])

\* C2: the density of the active columns plus the density of the frozen
\* columns is, elementwise, the density of the full occupied set.
C2_DensityAdditivity ==
  ReturnedFrom({"mulliken", "occupancy", "spade"}) =>
    MatEq(MatAdd(Density(ret.c_a), Density(ret.c_b)), Density(OccupiedCoeffs(mf)))

C2_Witness ==
  /\ ReturnedFrom({"spade"})
  /\ ret.c_a.nc = 1 /\ ret.c_b.nc = 3
  /\ ret.v_vecs.den = Pyth[3]
  /\ \E i \in 0..3 : At(Density(ret.c_b), i, i) # 0

IsEmptyCollection(active_atoms) == ~IsNone(active_atoms) /\ active_atoms.items = <<>>

\* C3: a threshold partitioner called with active_atoms = None returns every
\* occupied column as active and no frozen column; called with an empty
\* collection it returns no active column and every occupied column as frozen.
C3_Sentinels ==
  Done({"mulliken", "occupancy"}) =>
    LET c_occ == Localized(call.localize, OccupiedCoeffs(mf), call.U)
    IN  /\ IsNone(call.active_atoms) =>
             /\ ret.kind = "return"
             /\ ret.c_a = c_occ
             /\ ret.c_b.nc = 0 /\ ret.c_b.nr = c_occ.nr
        /\ IsEmptyCollection(call.active_atoms) =>
             /\ ret.kind = "return"
             /\ ret.c_b = c_occ
             /\ ret.c_a.nc = 0 /\ ret.c_a.nr = c_occ.nr

C3_Witness ==
  /\ ReturnedFrom({"occupancy"})
  /\ call.active_atoms = ActiveAtoms("tuple", <<>>)
  /\ call.localize
  /\ ret.c_b.nc = 3

\* C4: spade_partition called with active_atoms = None or with an empty
\* collection raises and returns no (active, frozen) pair.
C4_SpadeSentinelsRaise ==
  (Done({"spade"}) /\ (IsNone(call.active_atoms) \/ IsEmptyCollection(call.active_atoms)))
    => ret.kind = "raise"

C4_Witness ==
  /\ Done({"spade"})
  /\ call.active_atoms = ActiveAtoms("list", <<>>)
  /\ ret = Raised("ValueError")

\* the singular values as the specification takes them: padded with a zero
\* when there are fewer of them than right singular vectors
GapSequence == IF Len(ret.s_vals) < ret.v_vecs.nr THEN Append(ret.s_vals, 0) ELSE ret.s_vals

\* the largest consecutive gap of s comes after its first k values, and only there
PlantedAt(s, k) ==
  /\ k \in 1..(Len(s) - 1)
  /\ \A j \in 1..(Len(s) - 1) : j # k => s[k] - s[k + 1] > s[j] - s[j + 1]

\* C5: when the largest gap of the singular values is planted after the first
\* k values, spade_partition selects k active orbitals and returns the first
\* k rotated columns as active, the others as frozen.
C5_RankGap ==
  ReturnedFrom({"spade"}) =>
    \A k \in 1..NOcc :
      PlantedAt(GapSequence, k) =>
        LET rotated == MatMul(OccupiedCoeffs(mf), Transpose(ret.v_vecs))
        IN  /\ ret.n_act_mos = k
            /\ ret.c_a = Cols(rotated, PyRange(0, k))
            /\ ret.c_b = Cols(rotated, PyRange(k, NOcc))

C5_Witness ==
  /\ ReturnedFrom({"spade"})
  /\ Len(ret.s_vals) = 4
  /\ PlantedAt(GapSequence, 2)
  /\ ret.v_vecs.den = Pyth[3]

\* the split points whose gap the selection looks at
ConsideredSplits == 1..Len(ret.deltas)

\* C9 as stated: with fewer singular values than right singular vectors the
\* sequence is padded to the number of right singular vectors and every split
\* point from 1 to the number of occupied orbitals has its gap considered.
C9_PaddedToFullLength ==
  (ReturnedFrom({"spade"}) /\ Len(ret.s_vals) < ret.v_vecs.nr) =>
    /\ Len(ret.padded) = ret.v_vecs.nr
    /\ ConsideredSplits = 1..NOcc

\* C9 amended: two or more singular values, fewer than right singular
\* vectors, get exactly one zero appended, and the split points considered are
\* 1..(number of singular values); a single singular value is not padded, no
\* gap is computed and one active orbital is selected; as many singular values
\* as right singular vectors are not padded and the split points considered
\* are 1..(number of singular values - 1).
C9_OneZeroAppended ==
  ReturnedFrom({"spade"}) =>
    LET len == Len(ret.s_vals)
    IN  /\ len = 1 => ret.padded = ret.s_vals /\ ConsideredSplits = {} /\ ret.n_act_mos = 1
        /\ (len >= 2 /\ len # ret.v_vecs.nr) =>
             /\ ret.padded = Append(ret.s_vals, 0)
             /\ ConsideredSplits = 1..len
             /\ ret.n_act_mos \in ConsideredSplits
        /\ (len >= 2 /\ len = ret.v_vecs.nr) =>
             /\ ret.padded = ret.s_vals
             /\ ConsideredSplits = 1..(len - 1)
             /\ ret.n_act_mos \in ConsideredSplits

C9_Witness ==
  /\ ReturnedFrom({"spade"})
  /\ Len(ret.s_vals) = 2 /\ ret.v_vecs.nr = 4
  /\ Len(ret.padded) = 3
  /\ ret.n_act_mos = 2

-----------------------------------------------------------------------------
(* Properties of embedding_procedure.                                       *)

\* two method names that differ at most in the case of their letters
SameIgnoringCase(a, b) ==
  /\ Len(a) = Len(b)
  /\ \A k \in 1..Len(a) :
       \/ a[k] = b[k]
       \/ a[k] \in DOMAIN LowerOf /\ LowerOf[a[k]] = b[k]
       \/ b[k] \in DOMAIN LowerOf /\ LowerOf[b[k]] = a[k]

\* the first entry of the results, as the embedded solve left it
TotalEnergy ==
  Recombined(mf.e_tot, loc.energy_a,
             QSub(loc.tot_energy_a_in_b, QOf(loc.mf_embed.mol.enuc)))

\* C6: the tuple embedding_procedure returns has its length and order fixed by
\* the method name compared without regard to case: (total) for rhf and for a
\* functional label, (total, MP2 correlation) for mp2, (total, MP2 seed, CCSD
\* correlation minus MP2 seed) for ccsd, the same three and the triples
\* correction for ccsd(t); no entry exists before the embedded self-consistent
\* solve has run, and the total energy is the first entry from then on.
C6_ResultTuple ==
  /\ pc \in {"prepared", "truncated"} => loc.results = <<>> /\ ~loc.scf_ran
  /\ pc = "solved" => loc.scf_ran /\ loc.results = <<TotalEnergy>>
  /\ pc = "returned" =>
       LET m == call.embed_meth.val
           c == loc.embed_corr
       IN  /\ loc.scf_ran
           /\ ret = IF SameIgnoringCase(m, MP2) THEN <<TotalEnergy, c.e_corr>>
                    ELSE IF SameIgnoringCase(m, CCSD)
                      THEN <<TotalEnergy, c.emp2, QSub(c.e_corr, c.emp2)>>
                    ELSE IF SameIgnoringCase(m, CCSD_T)
                      THEN <<TotalEnergy, c.emp2, QSub(c.e_corr, c.emp2), c.e_t>>
                    ELSE <<TotalEnergy>>

\* a ccsd(t) run named in capitals has returned its four entries, the
\* correlation energies of the kernels all different
C6_Witness ==
  /\ pc = "returned"
  /\ call.embed_meth.val = <<"C", "C", "S", "D", "(", "T", ")">>
  /\ Len(ret) = 4
  /\ loc.embed_corr.e_corr # loc.embed_corr.emp2

\* C7: the first entry of the results is the whole-system total energy, minus
\* the electronic energy of the active density under the embedding Hamiltonian
\* (from the reduced solve when truncation cut the basis, from the
\* whole-system solver otherwise), plus the total energy of the embedded
\* solver less its nuclear repulsion.
C7_EnergyRecombination ==
  pc \in {"solved", "returned"} =>
    LET unembedded == EnergyElec(loc.dens_a, loc.v_a, loc.hcore_a_in_b)
        embedded == QSub(loc.tot_energy_a_in_b, QOf(loc.mf_embed.mol.enuc))
    IN  /\ QEq(QAdd(loc.results[1], unembedded), QAdd(mf.e_tot, embedded))
        /\ QEq(unembedded, IF loc.reduced THEN loc.energy_a_reduced ELSE loc.energy_a_whole)
        /\ loc.reduced => loc.dens_a.nr < mf.mol.nao /\ loc.hcore_a_in_b.nr = loc.dens_a.nr
        /\ ~loc.reduced => loc.dens_a.nr = mf.mol.nao

\* the embedded solve has run after a truncation whose reduced solve gave an
\* electronic energy other than the whole-system one
C7_Witness ==
  /\ pc = "solved"
  /\ loc.reduced
  /\ ~QEq(loc.energy_a_reduced, loc.energy_a_whole)
  /\ ~QEq(loc.energy_a, QOf(0))

\* C8: with a truncation threshold given and every AO selected by the
\* screening, the molecule and basis handed to the embedded solver, the
\* embedding Hamiltonian, the active density, the active effective potential
\* and the active electronic energy are those of a run without a threshold.
C8_TruncationNoop ==
  (pc \in {"truncated", "solved", "returned"} /\ loc.screened /\ ~loc.reduced) =>
    LET plain == Prepared(mf, call, loc.part)
    IN  /\ loc.mol = plain.mol
        /\ loc.hcore_a_in_b = plain.hcore_a_in_b
        /\ loc.dens_a = plain.dens_a
        /\ loc.v_a = plain.v_a
        /\ loc.energy_a = plain.energy_a

\* occupations of the columns active_mos of c_occ, the occupied columns of mo_coeff
SelectedOccupations(mo_occ, active_mos) ==
  [k \in 1..Len(active_mos) |-> mo_occ[OccupiedIdx(mo_occ)[active_mos[k] + 1] + 1]]

\* C10: the active density is built from the active columns the partitioner
\* returned and the occupations of exactly those orbitals, and the electron
\* count of the embedded molecule is the sum of the same occupations, whatever
\* the occupation vector and the partition (stated for the partitioner that
\* returns columns of c_occ as they are).
C10_ActiveOccupations ==
  (pc = "prepared" /\ call.distribute_mos.fn = "occupancy") =>
    LET occ == SelectedOccupations(mf.mo_occ, loc.part.active_mos)
    IN  /\ MatEq(loc.dens_a, make_dm(loc.part.c_a, occ))
        /\ loc.mol.nelectron = SumFn(occ, Len(occ))

====
